---- MODULE Spec2Model ----
(***************************************************************************)
(* Invoice-Extractor: the vendor-dispatch extraction pipeline.             *)
(*   back.py          registry, extract_details, process_files             *)
(*   create_excel.py  convert_df_to_xlsx                                   *)
(*   approaches/*.py  one get_details per vendor                           *)
(* The file system is a function from the paths that exist to their        *)
(* content.  A pandas DataFrame is abstracted to its shape (rows, cols).   *)
(* A PDF is abstracted to the class of what the PDF backends yield on it.  *)
(***************************************************************************)
EXTENDS Integers, Sequences, FiniteSets, TLC

\* longest file_list handed to process_files
MaxBatch == 2

\* most tables a table backend returns for one PDF
MaxTables == 2

\* most pages of a PDF
MaxPages == 2

\* longest list of candidate patterns of one header field
MaxPatterns == 3

\* largest combined tax amount of an item row, in paise
MaxTax == 40

None == "None"

(***************************************************************************)
(* back.py: the registry                                                   *)
(***************************************************************************)
MANUAL_METHODS ==
    {"myntra", "reliance_digital", "flipkart", "onemg", "swiggy", "meesho",
     "zomato", "instamart", "universal1", "universal2", "mandal", "spella"}

AI_METHODS == {"amazon", "gemini"}

ALL_METHODS == MANUAL_METHODS \cup AI_METHODS

\* method names a caller may pass: the registered ones and one that is not
Methods == ALL_METHODS \cup {"nonexistent_vendor"}

(***************************************************************************)
(* File names and paths.  A string "a_b" is the token sequence <<"a","b">>,*)
(* so that f"{base_name}_{model_used}" is concatenation of sequences.      *)
(* A file name is [dir, stem, ext]: dir "" is a bare name, "../extracted_excels" *)
(* a relative name with a parent segment.                                  *)
(***************************************************************************)
NameA == [dir |-> "", stem |-> <<"a">>, ext |-> "pdf"]
NameB == [dir |-> "", stem |-> <<"b">>, ext |-> "pdf"]
NameT == [dir |-> "../extracted_excels", stem |-> <<"a", "flipkart">>, ext |-> "xlsx"]

FileNames == {NameA, NameB, NameT}

Tokens(m) ==
    IF m = "reliance_digital" THEN <<"reliance", "digital">>
    ELSE IF m = "nonexistent_vendor" THEN <<"nonexistent", "vendor">>
    ELSE <<m>>

\* os.path.join("uploads", file_name), as the operating system resolves it
UploadPath(fn) ==
    [dir  |-> IF fn.dir = "" THEN "uploads" ELSE "extracted_excels",
     stem |-> fn.stem, ext |-> fn.ext]

\* os.path.join("masked", file_name)
MaskedPath(fn) ==
    [dir  |-> IF fn.dir = "" THEN "masked" ELSE "extracted_excels",
     stem |-> fn.stem, ext |-> fn.ext]

\* an output path that leaves the method out: extracted_excels/<base_name>.xlsx
OutputPath_NoMethod(fn, m) ==
    [dir |-> "extracted_excels", stem |-> fn.stem, ext |-> "xlsx"]

\* extracted_excels/<base_name>_<model_used>.xlsx
OutputPath(fn, m) ==
    [dir |-> "extracted_excels", stem |-> fn.stem \o Tokens(m), ext |-> "xlsx"]

(***************************************************************************)
(* File contents                                                           *)
(***************************************************************************)
\* what the PDF backends yield on a PDF:
\*   items      header text and item rows / a data table
\*   header     header text, no item rows and no table
\*   blank      pages without text and without tables
\*   emptyrows  header text and a table of a header row plus rows whose
\*              cells are all empty strings
\*   tableonly  a data table, and text in which no header pattern matches
\*   corrupt    not a PDF: every backend raises when opening it
\*   encrypted  password-protected: every backend raises when opening it
Kinds == {"items", "header", "blank", "emptyrows", "tableonly", "corrupt", "encrypted"}

\* a table backend finds a table with data rows
HasTable(k) == k \in {"items", "emptyrows", "tableonly"}

\* no header pattern matches the text of the PDF
NoFields(k) == k \in {"blank", "tableonly"}

Pdf(k) == [type |-> "pdf", kind |-> k]

Workbook(sh) == [type |-> "xlsx", sheets |-> sh]

Exists(d, p) == p \in DOMAIN d

WriteFile(d, p, c) == [q \in (DOMAIN d) \cup {p} |-> IF q = p THEN c ELSE d[q]]

\* the class of the file at p when a PDF backend opens it
KindAt(d, p) == IF d[p].type = "pdf" THEN d[p].kind ELSE "corrupt"

Unreadable(k) == k \in {"corrupt", "encrypted"}

\* str(e) of the exception pdfplumber.open raises
OpenError(k) == IF k = "encrypted" THEN "" ELSE "No /Root object! - Is this really a PDF?"

(***************************************************************************)
(* DataFrames                                                              *)
(***************************************************************************)
DF(r, c) == [rows |-> r, cols |-> c]

EmptyDF == DF(0, 0)

\* DataFrame.empty: any axis of length 0
IsEmpty(df) == df.rows = 0 \/ df.cols = 0

TwoTable(s, i, h) ==
    [shape |-> "dict", invoice_summary |-> s, item_details |-> i, has_items |-> h]

SingleTable(t) == [shape |-> "df", table |-> t]

Raise(msg) == [shape |-> "raise", msg |-> msg]

create_empty_result == TwoTable(EmptyDF, EmptyDF, FALSE)

\* what an extractor call leaves behind: its return value (or the exception
\* it raised) and the file system after it
Ret(out, d) == [out |-> out, disk |-> d]


(***************************************************************************)
(* The environment: what is installed and whether writes succeed           *)
(*   models  vectorizer.pkl, classifier.pkl and best.pt are present        *)
(*   api     the generative-model service answers                          *)
(*   wf      write fault: "none"; "cells" (an item table holds a cell the  *)
(*           workbook engine rejects); "disk" (no output file can be       *)
(*           written)                                                      *)
(***************************************************************************)
WriteFaults == {"none", "cells", "disk"}

\* The environments a call starts in.  Only universal1 reads models and only
\* gemini reads api, and each stops before the exporter when its resource is
\* missing; every other method ignores both.  A write fault combined with a
\* missing resource therefore behaves, for each method, as one of the
\* environments kept here.
Environments ==
    { e \in [models : BOOLEAN, api : BOOLEAN, wf : WriteFaults] :
        (e.wf # "none") => (e.models /\ e.api) }

\* the output directory "extracted_excels" itself, as an entry of the disk
OutDir == [dir |-> "", stem |-> <<"extracted_excels">>, ext |-> ""]

DirEntry == [type |-> "dir"]

\* a regular file where the output directory should be
FileEntry == [type |-> "file"]

\* os.makedirs("extracted_excels", exist_ok=True) raises iff the name is taken
\* by something that is not a directory
MakedirsFails(d) == Exists(d, OutDir) /\ d[OutDir].type # "dir"

MakedirsError == "[Errno 17] File exists: 'extracted_excels'"

Makedirs(d) == IF Exists(d, OutDir) THEN d ELSE WriteFile(d, OutDir, DirEntry)

(***************************************************************************)
(* approaches/flipkart.py                                                  *)
(***************************************************************************)
\* extract_metadata_flipkart: the 16 default keys, whatever happens inside
extract_metadata_flipkart(k) == DF(1, 16)

\* extract_items_flipkart: rows only from the fixed line offsets; every
\* failure inside gives pd.DataFrame()
extract_items_flipkart(k) == IF k = "items" THEN DF(1, 9) ELSE EmptyDF

flipkart_get_details(fn, d, env) ==
    LET file_path == UploadPath(fn) IN
    IF ~Exists(d, file_path) THEN Ret(create_empty_result, d)
    ELSE LET k == KindAt(d, file_path)
             invoice_summary == extract_metadata_flipkart(k)
             items == extract_items_flipkart(k)
             \* the metadata keys are added as columns of every item row
             item_details == IF IsEmpty(items) THEN items
                             ELSE DF(items.rows, items.cols + 14)
         IN  Ret(TwoTable(invoice_summary, item_details, ~IsEmpty(item_details)), d)

(***************************************************************************)
(* approaches/onemg.py                                                     *)
(***************************************************************************)
extract_metadata_1mg(k) == DF(1, 11)

\* tables of fewer than 5 rows are skipped; every failure gives pd.DataFrame()
extract_items_1mg(k) == IF k = "items" THEN DF(1, 17) ELSE EmptyDF

onemg_get_details(fn, d, env) ==
    LET file_path == UploadPath(fn) IN
    IF ~Exists(d, file_path) THEN Ret(create_empty_result, d)
    ELSE LET k == KindAt(d, file_path)
             invoice_summary == extract_metadata_1mg(k)
             items == extract_items_1mg(k)
             item_details == IF IsEmpty(items) THEN items
                             ELSE DF(items.rows, items.cols + 10)
         IN  Ret(TwoTable(invoice_summary, item_details, ~IsEmpty(item_details)), d)

(***************************************************************************)
(* approaches/meesho.py                                                    *)
(***************************************************************************)
\* extract_header: one (Field, Value) row per header field, "N/A" if unmatched
meesho_extract_header(k) == DF(10, 2)

meesho_extract_items(k) == IF k = "items" THEN DF(1, 9) ELSE EmptyDF

\* meesho get_details without the os.path.exists check: opening the missing
\* file raises
meesho_get_details_NoExistsCheck(fn, d, env) ==
    LET file_path == UploadPath(fn) IN
    IF ~Exists(d, file_path)
    THEN Ret(Raise("[Errno 2] No such file or directory"), d)
    ELSE LET k == KindAt(d, file_path) IN
         IF Unreadable(k) THEN Ret(create_empty_result, d)
         ELSE LET items_df == meesho_extract_items(k) IN
              Ret(TwoTable(meesho_extract_header(k), items_df, ~IsEmpty(items_df)), d)

meesho_get_details(fn, d, env) ==
    LET file_path == UploadPath(fn) IN
    IF ~Exists(d, file_path) THEN Ret(create_empty_result, d)
    ELSE LET k == KindAt(d, file_path) IN
         IF Unreadable(k) THEN Ret(create_empty_result, d)      \* except Exception
         ELSE LET items_df == meesho_extract_items(k) IN
              Ret(TwoTable(meesho_extract_header(k), items_df, ~IsEmpty(items_df)), d)

(***************************************************************************)
(* approaches/instamart.py                                                 *)
(***************************************************************************)
\* extract_instamart_invoice: pdfplumber.open is not guarded
extract_instamart_invoice(k) ==
    IF Unreadable(k) THEN Raise(OpenError(k))
    ELSE LET items_df == IF k = "items" THEN DF(1, 8) ELSE EmptyDF
         IN  TwoTable(DF(13, 2), items_df, ~IsEmpty(items_df))

instamart_get_details(fn, d, env) ==
    LET file_path == UploadPath(fn) IN
    IF ~Exists(d, file_path) THEN Ret(create_empty_result, d)
    ELSE Ret(extract_instamart_invoice(KindAt(d, file_path)), d)

(***************************************************************************)
(* approaches/swiggy.py                                                    *)
(***************************************************************************)
\* extract_swiggy_header: only the matched fields become keys
extract_swiggy_header(k) == IF NoFields(k) THEN DF(1, 0) ELSE DF(1, 9)

\* extract_swiggy_items: the camelot table below its header row, else the
\* rows parsed from the text lines
extract_swiggy_items(k) == IF HasTable(k) THEN DF(1, 7) ELSE EmptyDF

swiggy_get_details(fn, d, env) ==
    LET file_path == UploadPath(fn) IN
    IF ~Exists(d, file_path) THEN Ret(create_empty_result, d)
    ELSE LET k == KindAt(d, file_path) IN
         IF Unreadable(k) THEN Ret(create_empty_result, d)      \* except Exception
         ELSE LET items == extract_swiggy_items(k)
                  item_details == IF IsEmpty(items) THEN items
                                  ELSE DF(items.rows, items.cols + 1)
              IN  Ret(TwoTable(extract_swiggy_header(k), item_details,
                               ~IsEmpty(item_details)), d)

(***************************************************************************)
(* approaches/reliance_digital.py                                          *)
(***************************************************************************)
extract_header_details(k) == IF NoFields(k) THEN DF(1, 0) ELSE DF(1, 7)

\* extract_items_table: the first lattice table below its first row
extract_items_table(k) == IF HasTable(k) THEN DF(1, 7) ELSE EmptyDF

reliance_digital_get_details(fn, d, env) ==
    LET file_path == UploadPath(fn) IN
    IF ~Exists(d, file_path) THEN Ret(create_empty_result, d)
    ELSE LET k == KindAt(d, file_path) IN
         IF Unreadable(k) THEN Ret(create_empty_result, d)      \* except Exception
         ELSE LET items == extract_items_table(k)
                  item_details == IF IsEmpty(items) THEN items
                                  ELSE DF(items.rows, items.cols + 1)
              IN  Ret(TwoTable(extract_header_details(k), item_details,
                               ~IsEmpty(item_details)), d)

(***************************************************************************)
(* approaches/myntra.py                                                    *)
(***************************************************************************)
\* Strings are abstracted to what extract_text and get_details test:
\*   ""    the empty string
\*   "ws"  whitespace only
\*   "x"   text with header fields and no item line
\*   "xi"  text with header fields and item lines
\* page.extract_text() gives None, "" or text for a page
PageTexts == {"None", "", "x", "xi"}

\* the text layer: pdfplumber.open raises, or one text per page
LayerError == [raised |-> TRUE, pages |-> <<>>]

Layers ==
    {LayerError} \cup
    {[raised |-> FALSE, pages |-> ps] : ps \in UNION {[1..n -> PageTexts] : n \in 0..MaxPages}}

\* the OCR libraries: imported or not, and what rasterising and recognising
\* the pages gives ("raise": convert_from_path or image_to_string raises)
OcrOutcomes == [available : BOOLEAN, result : {"raise", "", "ws", "x", "xi"}]

\* if page_text:
Truthy(t) == t \notin {"None", ""}

\* "\n".join(parts) for parts that are not empty
Join(parts) ==
    IF Len(parts) = 0 THEN ""
    ELSE IF \E i \in 1..Len(parts) : parts[i] = "xi" THEN "xi"
    ELSE IF \E i \in 1..Len(parts) : parts[i] = "x" THEN "x"
    ELSE "ws"

\* text.strip()
Strip(t) == IF t = "ws" THEN "" ELSE t

\* what extract_text leaves: the text returned, how many times OCR was
\* attempted, and whether an exception left the function
TextOut(t, n, esc) == [text |-> t, tried |-> n, raised |-> esc]

\* extract_text whose OCR block has no except
extract_text_UnguardedOcr(lay, o) ==
    LET text == IF lay.raised THEN "" ELSE Join(SelectSeq(lay.pages, Truthy))
    IN  IF Strip(text) = "" /\ o.available
        THEN (IF o.result = "raise" THEN TextOut("", 1, TRUE)
              ELSE TextOut(o.result, 1, FALSE))
        ELSE TextOut(text, 0, FALSE)

\* extract_text(pdf_path)
extract_text(lay, o) ==
    LET text == IF lay.raised THEN "" ELSE Join(SelectSeq(lay.pages, Truthy))
    IN  IF Strip(text) = "" /\ o.available
        THEN (IF o.result = "raise" THEN TextOut("", 1, FALSE)
              ELSE TextOut(o.result, 1, FALSE))
        ELSE TextOut(text, 0, FALSE)

\* get_details after the os.path.exists check, given what extract_text left
myntra_from_text(t) ==
    IF t.raised \/ Strip(t.text) = "" THEN create_empty_result
    ELSE LET items_df == IF t.text = "xi" THEN DF(1, 15) ELSE EmptyDF
         IN  TwoTable(DF(1, 20), items_df, ~IsEmpty(items_df))

\* extract_text: "" when the PDF cannot be opened or has no text layer
myntra_has_text(k) == k \in {"items", "header", "emptyrows", "tableonly"}

myntra_get_details(fn, d, env) ==
    LET file_path == UploadPath(fn) IN
    IF ~Exists(d, file_path) THEN Ret(create_empty_result, d)
    ELSE LET k == KindAt(d, file_path) IN
         IF ~myntra_has_text(k) THEN Ret(create_empty_result, d)
         ELSE LET items_df == IF k = "items" THEN DF(1, 15) ELSE EmptyDF
              IN  Ret(TwoTable(DF(1, 20), items_df, ~IsEmpty(items_df)), d)

(***************************************************************************)
(* approaches/zomato.py                                                    *)
(***************************************************************************)
\* ZomatoInvoiceExtractor.process_invoice: _extract_text_from_pdf is not
\* guarded; no text gives {}; table errors give an empty item list
process_invoice(k) ==
    IF Unreadable(k) THEN Raise(OpenError(k))
    ELSE IF k = "blank" THEN [shape |-> "data", header |-> 0, items |-> 0]
    ELSE [shape |-> "data", header |-> 17,
          items |-> IF HasTable(k) THEN 1 ELSE 0]

\* zomato get_details whose missing-file branch reports the cause by raising
zomato_get_details_RaiseNotFound(fn, d, env) ==
    LET file_path == UploadPath(fn) IN
    IF ~Exists(d, file_path) THEN Ret(Raise("File not found"), d)
    ELSE LET data == process_invoice(KindAt(d, file_path)) IN
         IF data.shape = "raise" THEN Ret(data, d)
         ELSE LET invoice_summary == IF data.header > 0 THEN DF(1, data.header) ELSE EmptyDF
                  item_details == IF data.items > 0 THEN DF(data.items, 6) ELSE EmptyDF
              IN  Ret(TwoTable(invoice_summary, item_details, ~IsEmpty(item_details)), d)

zomato_get_details(fn, d, env) ==
    LET file_path == UploadPath(fn) IN
    IF ~Exists(d, file_path) THEN Ret(create_empty_result, d)
    ELSE LET data == process_invoice(KindAt(d, file_path)) IN
         IF data.shape = "raise" THEN Ret(data, d)
         ELSE LET invoice_summary == IF data.header > 0 THEN DF(1, data.header) ELSE EmptyDF
                  item_details == IF data.items > 0 THEN DF(data.items, 6) ELSE EmptyDF
              IN  Ret(TwoTable(invoice_summary, item_details, ~IsEmpty(item_details)), d)

(***************************************************************************)
(* The table fallback chain of universal1 and universal2.  A backend call  *)
(* either raises or yields a list of tables; a table is abstracted to what *)
(* the chain tests:                                                        *)
(*   good    several rows, no null cell                                    *)
(*   onerow  a single row, no null cell                                    *)
(*   null    several rows, some cell null                                  *)
(*   empty   DataFrame.empty                                               *)
(***************************************************************************)
CamelotTables == {"good", "onerow", "null", "empty"}

\* tabula.read_pdf returns DataFrames
TabulaTables == {"good", "null", "empty"}

Yield(ts) == [raised |-> FALSE, tables |-> ts]

BackendError == [raised |-> TRUE, tables |-> <<>>]

BackendResults(T) ==
    {BackendError} \cup {Yield(ts) : ts \in UNION {[1..n -> T] : n \in 0..MaxTables}}

\* what a chain returns: the tables, how many times tabula.read_pdf was
\* called, and whether an exception left the function
ChainOut(ts, n, esc) == [tables |-> ts, consulted |-> n, raised |-> esc]

\* not df.empty
NotEmptyTable(t) == t # "empty"

\* the second try block without its except: an exception of tabula leaves
\* the function
tabula_fallback_NoCatch(sec) ==
    IF sec.raised THEN ChainOut(<<>>, 1, TRUE)
    ELSE ChainOut(SelectSeq(sec.tables, NotEmptyTable), 1, FALSE)

\* the second try block, the same in both files: tabula's non-empty
\* DataFrames, [] when it raises
tabula_fallback(sec) ==
    IF sec.raised THEN ChainOut(<<>>, 1, FALSE)
    ELSE ChainOut(SelectSeq(sec.tables, NotEmptyTable), 1, FALSE)

\* universal1.extract_tables_with_fallback
extract_tables_with_fallback(pri, sec) ==
    LET tables == pri.tables
        fallback_needed ==
            \/ Len(tables) = 0
            \/ \E i \in 1..Len(tables) : tables[i] \in {"empty", "null"}
    IN  IF ~pri.raised /\ ~fallback_needed THEN ChainOut(tables, 0, FALSE)
        ELSE tabula_fallback(sec)

\* not table.df.empty and table.df.shape[0] > 1
KeptByUniversal2(t) == t \notin {"empty", "onerow"}

\* universal2.extract_table_with_fallback
extract_table_with_fallback(pri, sec) ==
    LET tables == SelectSeq(pri.tables, KeptByUniversal2)
    IN  IF ~pri.raised /\ Len(tables) > 0 THEN ChainOut(tables, 0, FALSE)
        ELSE tabula_fallback(sec)

(***************************************************************************)
(* approaches/universal1.py                                                *)
(***************************************************************************)
ModelMissingError == "[Errno 2] No such file or directory: 'vectorizer.pkl'"

FitzError == "Failed to open file"

\* mask_tables_in_pdf saves a copy of the PDF with its tables painted over
MaskedKind(k) == IF NoFields(k) THEN "blank" ELSE "header"

\* extract_fields + keep_only_nonempty_columns: only the matched fields stay
universal1_summary(k) == IF NoFields(k) THEN DF(1, 0) ELSE DF(1, 5)

\* extract_tables_with_fallback + concat: camelot keeps the header row as data
universal1_items(k) == IF HasTable(k) THEN DF(2, 5) ELSE EmptyDF

universal1_get_details(fn, d, env) ==
    LET file_path == UploadPath(fn) IN
    IF ~Exists(d, file_path) THEN Ret(create_empty_result, d)
    ELSE IF ~env.models THEN Ret(Raise(ModelMissingError), d)
    ELSE LET k == KindAt(d, file_path) IN
         IF Unreadable(k) THEN Ret(Raise(FitzError), d)
         ELSE LET item_details_df == universal1_items(k) IN
              Ret(TwoTable(universal1_summary(k), item_details_df,
                           ~IsEmpty(item_details_df)),
                  WriteFile(d, MaskedPath(fn), Pdf(MaskedKind(k))))

(***************************************************************************)
(* approaches/universal2.py                                                *)
(***************************************************************************)
\* extract_universal_header: filename, method and timestamp are always set
extract_universal_header(k) == DF(1, 3)

\* extract_table_with_fallback, else extract_items_universal on the text
universal2_items(k) == IF HasTable(k) THEN DF(2, 5) ELSE EmptyDF

universal2_get_details(fn, d, env) ==
    LET file_path == UploadPath(fn) IN
    IF ~Exists(d, file_path) THEN Ret(create_empty_result, d)
    ELSE LET k == KindAt(d, file_path) IN
         IF Unreadable(k) THEN Ret(create_empty_result, d)   \* text extraction error
         ELSE LET item_details_df == universal2_items(k) IN
              Ret(TwoTable(extract_universal_header(k), item_details_df,
                           ~IsEmpty(item_details_df)), d)

(***************************************************************************)
(* approaches/amazon.py                                                    *)
(***************************************************************************)
\* AmazonInvoiceExtractor.extract_tables: number of tables kept (raises on an
\* unreadable PDF, which extract_invoice turns into success False)
extract_tables(k) == IF HasTable(k) THEN 1 ELSE 0

\* AmazonInvoiceExtractor.generate_output_path
generate_output_path(fn, k) ==
    IF NoFields(k)                                  \* no invoice number matched
    THEN [dir |-> "extracted_excels", stem |-> fn.stem \o <<"amazon">>, ext |-> "xlsx"]
    ELSE [dir |-> "extracted_excels", stem |-> <<"amazon", "invoice", "INV">>,
          ext |-> "xlsx"]

\* the sheets save_to_excel has written when the workbook is closed
save_to_excel(k, wf) ==
    IF extract_tables(k) > 0 /\ wf = "none"
    THEN ("Invoice_Header" :> DF(18, 2)) @@ ("Table_1" :> DF(1, 5))
    ELSE ("Invoice_Header" :> DF(18, 2))

\* xls.parse("Table_1"): rows whose cells are all empty are not read back
ReadBack(k) == IF k \in {"items", "tableonly"} THEN DF(1, 5) ELSE DF(0, 5)

\* AmazonInvoiceExtractor.extract_invoice: every exception gives success False
extract_invoice(fn, d, env) ==
    LET pdf_path == UploadPath(fn)
        k == KindAt(d, pdf_path)
        failed == [success |-> FALSE, tables_count |-> 0, k |-> "none"]
    IN  IF ~Exists(d, pdf_path) \/ fn.ext # "pdf" THEN Ret(failed, d)
        ELSE IF Unreadable(k) THEN Ret(failed, d)
        ELSE IF MakedirsFails(d) THEN Ret(failed, d)
        ELSE IF env.wf = "disk" THEN Ret(failed, Makedirs(d))
        ELSE LET d2 == WriteFile(Makedirs(d), generate_output_path(fn, k),
                                 Workbook(save_to_excel(k, env.wf)))
             IN  IF env.wf = "cells" /\ extract_tables(k) > 0
                 THEN Ret(failed, d2)
                 ELSE Ret([success |-> TRUE, tables_count |-> extract_tables(k),
                           k |-> k], d2)

amazon_get_details(fn, d, env) ==
    LET r == extract_invoice(fn, d, env)
        result == r.out
        tables == result.tables_count
        item_details == IF result.success /\ tables > 0 THEN ReadBack(result.k)
                        ELSE EmptyDF
        invoice_summary == IF result.success THEN DF(1, 18) ELSE EmptyDF
    IN  Ret(TwoTable(invoice_summary, item_details, tables > 0), r.disk)

(***************************************************************************)
(* approaches/gemini.py                                                    *)
(***************************************************************************)
\* extract_with_gemini: a single table; pd.DataFrame() on every exception
extract_with_gemini(fn, d, env) ==
    LET path == UploadPath(fn) IN
    IF ~Exists(d, path) THEN Ret(SingleTable(EmptyDF), d)
    ELSE IF Unreadable(KindAt(d, path)) \/ ~env.api THEN Ret(SingleTable(EmptyDF), d)
    ELSE Ret(SingleTable(DF(1, 17)), d)

(***************************************************************************)
(* approaches/mandal.py, approaches/spella.py: registered in back.py, their *)
(* source is not part of the tree; they follow the Vendor Extractor         *)
(* contract (never raise, empty result when nothing is extractable)         *)
(***************************************************************************)
contract_get_details(fn, d, env) ==
    LET file_path == UploadPath(fn) IN
    IF ~Exists(d, file_path) THEN Ret(create_empty_result, d)
    ELSE LET k == KindAt(d, file_path) IN
         IF Unreadable(k) \/ k = "blank" THEN Ret(create_empty_result, d)
         ELSE LET item_details == IF HasTable(k) THEN DF(1, 5)
                                  ELSE EmptyDF
              IN  Ret(TwoTable(DF(1, 5), item_details, ~IsEmpty(item_details)), d)

\* ALL_METHODS[method](file_name)
Extractor(m, fn, d, env) ==
    CASE m = "flipkart"         -> flipkart_get_details(fn, d, env)
      [] m = "onemg"            -> onemg_get_details(fn, d, env)
      [] m = "meesho"           -> meesho_get_details(fn, d, env)
      [] m = "instamart"        -> instamart_get_details(fn, d, env)
      [] m = "swiggy"           -> swiggy_get_details(fn, d, env)
      [] m = "reliance_digital" -> reliance_digital_get_details(fn, d, env)
      [] m = "myntra"           -> myntra_get_details(fn, d, env)
      [] m = "zomato"           -> zomato_get_details(fn, d, env)
      [] m = "universal1"       -> universal1_get_details(fn, d, env)
      [] m = "universal2"       -> universal2_get_details(fn, d, env)
      [] m = "amazon"           -> amazon_get_details(fn, d, env)
      [] m = "gemini"           -> extract_with_gemini(fn, d, env)
      [] m \in {"mandal", "spella"} -> contract_get_details(fn, d, env)

(***************************************************************************)
(* create_excel.py                                                         *)
(***************************************************************************)
\* the sheets of the workbook the `with pd.ExcelWriter` block writes
Sheets(data) ==
    IF data.shape = "dict"
    THEN (IF IsEmpty(data.invoice_summary) THEN <<>>
          ELSE ("Invoice Summary" :> data.invoice_summary))
         @@ ("Item Details" :> IF IsEmpty(data.item_details) THEN DF(1, 1)
                               ELSE data.item_details)
    ELSE ("Data" :> data.table)

\* the with-block raises: nothing can be written, or an item cell is rejected
WriterFails(data, env) ==
    \/ env.wf = "disk"
    \/ env.wf = "cells" /\ data.shape = "dict" /\ ~IsEmpty(data.item_details)

\* the fallback: the invoice summary (or the single table) alone, one sheet
FallbackSheets(data) ==
    IF data.shape = "dict" THEN ("Sheet1" :> data.invoice_summary)
    ELSE ("Sheet1" :> data.table)

\* a path next to p that is used when p is taken
Fresh(d, p) == IF Exists(d, p) THEN [p EXCEPT !.stem = @ \o <<"1">>] ELSE p

\* convert_df_to_xlsx that never overwrites: an existing workbook is kept and
\* the new one gets a numbered name
convert_df_to_xlsx_Accumulate(data, file_name, model_used, d, env) ==
    LET output_path == Fresh(d, OutputPath(file_name, model_used)) IN
    IF MakedirsFails(d) THEN [raised |-> MakedirsError, disk |-> d]
    ELSE IF ~WriterFails(data, env)
         THEN [raised |-> None,
               disk |-> WriteFile(Makedirs(d), output_path, Workbook(Sheets(data)))]
    ELSE IF env.wf # "disk"
         THEN [raised |-> None,
               disk |-> WriteFile(Makedirs(d), output_path,
                                  Workbook(FallbackSheets(data)))]
    ELSE [raised |-> None, disk |-> Makedirs(d)]

\* convert_df_to_xlsx without the except branch: a failed write propagates
convert_df_to_xlsx_NoFallback(data, file_name, model_used, d, env) ==
    LET output_path == OutputPath(file_name, model_used) IN
    IF MakedirsFails(d) THEN [raised |-> MakedirsError, disk |-> d]
    ELSE IF ~WriterFails(data, env)
         THEN [raised |-> None,
               disk |-> WriteFile(Makedirs(d), output_path, Workbook(Sheets(data)))]
    ELSE [raised |-> "cannot write workbook", disk |-> Makedirs(d)]

\* convert_df_to_xlsx(data, file_name, model_used): os.makedirs is outside the
\* try block, everything after it is inside
convert_df_to_xlsx(data, file_name, model_used, d, env) ==
    LET output_path == OutputPath(file_name, model_used) IN
    IF MakedirsFails(d) THEN [raised |-> MakedirsError, disk |-> d]
    ELSE IF ~WriterFails(data, env)
         THEN [raised |-> None,
               disk |-> WriteFile(Makedirs(d), output_path, Workbook(Sheets(data)))]
    ELSE IF env.wf # "disk"
         THEN [raised |-> None,
               disk |-> WriteFile(Makedirs(d), output_path,
                                  Workbook(FallbackSheets(data)))]
    ELSE [raised |-> None, disk |-> Makedirs(d)]

(***************************************************************************)
(* File handles.  Every open in the tree is a `with` block except two:     *)
(* amazon get_details reads the workbook back with pd.ExcelFile(output_file)*)
(* and universal1 mask_tables_in_pdf opens the input with fitz.open; neither*)
(* object is closed.                                                       *)
(***************************************************************************)
\* the number of handles one extract_details call opens and does not
\* close
Unclosed(fn, m, d, env) ==
    IF m = "amazon"
    THEN (IF extract_invoice(fn, d, env).out.success THEN 1 ELSE 0)
    ELSE IF m = "universal1"
    THEN (IF /\ Exists(d, UploadPath(fn))
             /\ env.models
             /\ ~Unreadable(KindAt(d, UploadPath(fn)))
          THEN 1 ELSE 0)
    ELSE 0

(***************************************************************************)
(* back.py: extract_details                                                *)
(***************************************************************************)
NoData == [shape |-> "None"]

Success(method, result) ==
    [model_used |-> method, status |-> "success", data |-> result]

Failed(method, error) ==
    [model_used |-> method, status |-> "failed", data |-> NoData, error |-> error]

\* has_data: either table of the dict non-empty, or the single table non-empty
HasData(result) ==
    IF result.shape = "dict"
    THEN ~IsEmpty(result.invoice_summary) \/ ~IsEmpty(result.item_details)
    ELSE IF result.shape = "df" THEN ~IsEmpty(result.table)
    ELSE FALSE

\* one call: the status returned (or the exception that escaped), the file
\* system after the call, and which collaborators were invoked
Outcome(st, esc, d, ex, xp) ==
    [status |-> st, raised |-> esc, disk |-> d, extractor |-> ex, exporter |-> xp]

\* extract_details without its try/except around the extractor call
extract_details_NoCatch(file_name, method, d, env) ==
    IF method \notin ALL_METHODS
    THEN Outcome(Failed(method, "Extractor not found"), None, d, FALSE, FALSE)
    ELSE LET r == Extractor(method, file_name, d, env)
             result == r.out
         IN  IF result.shape = "raise"
             THEN Outcome(Failed(method, result.msg), result.msg, r.disk, TRUE, FALSE)
             ELSE IF HasData(result)
             THEN LET x == convert_df_to_xlsx(result, file_name, method, r.disk, env)
                  IN  IF x.raised # None
                      THEN Outcome(Failed(method, x.raised), None, x.disk, TRUE, TRUE)
                      ELSE Outcome(Success(method, result), None, x.disk, TRUE, TRUE)
             ELSE Outcome(Failed(method, "No data extracted"), None, r.disk, TRUE, FALSE)

\* extract_details whose lookup falls back to a default extractor:
\* ALL_METHODS.get(method, flipkart_extractor)
extract_details_DefaultExtractor(file_name, method, d, env) ==
    LET r == Extractor(IF method \in ALL_METHODS THEN method ELSE "flipkart",
                       file_name, d, env)
        result == r.out
    IN  IF result.shape = "raise"
        THEN Outcome(Failed(method, result.msg), None, r.disk, TRUE, FALSE)
        ELSE IF HasData(result)
        THEN LET x == convert_df_to_xlsx(result, file_name, method, r.disk, env)
             IN  IF x.raised # None
                 THEN Outcome(Failed(method, x.raised), None, x.disk, TRUE, TRUE)
                 ELSE Outcome(Success(method, result), None, x.disk, TRUE, TRUE)
        ELSE Outcome(Failed(method, "No data extracted"), None, r.disk, TRUE, FALSE)

extract_details(file_name, method, d, env) ==
    IF method \notin ALL_METHODS
    THEN Outcome(Failed(method, "Extractor not found"), None, d, FALSE, FALSE)
    ELSE LET r == Extractor(method, file_name, d, env)
             result == r.out
         IN  IF result.shape = "raise"                       \* except Exception as e
             THEN Outcome(Failed(method, result.msg), None, r.disk, TRUE, FALSE)
             ELSE IF HasData(result)
             THEN LET x == convert_df_to_xlsx(result, file_name, method, r.disk, env)
                  IN  IF x.raised # None                     \* except Exception as e
                      THEN Outcome(Failed(method, x.raised), None, x.disk, TRUE, TRUE)
                      ELSE Outcome(Success(method, result), None, x.disk, TRUE, TRUE)
             ELSE Outcome(Failed(method, "No data extracted"), None, r.disk, TRUE, FALSE)

(***************************************************************************)
(* State                                                                   *)
(***************************************************************************)
VARIABLES
    disk,       \* the file system: existing path -> content
    env,        \* [models, api, wf]
    disk0,      \* the file system when process_files was entered
    pc,         \* "idle", "running", "done", "raised"
    file_list,  \* argument of process_files
    method,     \* argument of process_files
    idx,        \* position of the for loop in file_list (1-based)
    results,    \* the dict process_files builds: file name -> status
    last,       \* the latest extract_details call
    handles,    \* file handles opened by a call and not closed by it
    jobs,       \* concurrent exports: worker -> [file, method]
    wpc,        \* concurrent exports: worker -> "start", "writing", "done"
    primary,    \* table chain: what camelot.read_pdf yields
    secondary,  \* table chain: what tabula.read_pdf yields
    chain,      \* table chain: the latest call and what it returned
    layer,      \* myntra: what the text layer yields, page by page
    ocr,        \* myntra: [available, result] of the OCR libraries
    mtext,      \* myntra: the latest extract_text / get_details call
    arg,        \* a helper function on its own: the argument it is called with
    ret         \* a helper function on its own: the call and what it returned

batchvars == <<disk, env, disk0, pc, file_list, method, idx, results, last, handles>>

concvars == <<jobs, wpc>>

chainvars == <<primary, secondary, chain>>

myntravars == <<layer, ocr, mtext>>

purevars == <<arg, ret>>

vars == <<batchvars, concvars, chainvars, myntravars, purevars>>

NoCall == [called |-> FALSE]

\* the variables of the other scenarios while a batch runs
NoWorkers == jobs = <<>> /\ wpc = <<>>

NoChain == primary = Yield(<<>>) /\ secondary = Yield(<<>>) /\ chain = NoCall

NoPure == arg = None /\ ret = NoCall

NoMyntra ==
    /\ layer = LayerError
    /\ ocr = [available |-> FALSE, result |-> "raise"]
    /\ mtext = NoCall

EmptyDict == [f \in {} |-> NoData]

Range(s) == {s[i] : i \in 1..Len(s)}

Batches == UNION {[1..n -> FileNames] : n \in 0..MaxBatch}

\* an earlier export of a.pdf with flipkart
OldWorkbook == Workbook(("Invoice Summary" :> DF(1, 16)) @@ ("Item Details" :> DF(1, 1)))

\* the uploads directory: a.pdf of any class or missing, b.pdf extractable or
\* missing; the output directory: present, absent, or its name taken by a file
Uploads(ka, kb) ==
    (IF ka = "absent" THEN <<>> ELSE (UploadPath(NameA) :> Pdf(ka)))
    @@ (IF kb = "absent" THEN <<>> ELSE (UploadPath(NameB) :> Pdf(kb)))

Outputs(o) ==
    CASE o = "absent" -> <<>>
      [] o = "dir"    -> (OutDir :> DirEntry)
      [] o = "file"   -> (OutDir :> FileEntry)
      [] o = "used"   -> (OutDir :> DirEntry) @@ (UploadPath(NameT) :> OldWorkbook)

Init ==
    /\ \E ka \in Kinds \cup {"absent"}, kb \in {"items", "absent"},
          o \in {"absent", "dir", "file", "used"} :
          disk = Uploads(ka, kb) @@ Outputs(o)
    /\ env \in Environments
    /\ disk0 = disk
    /\ pc = "idle"
    /\ file_list = <<>>
    /\ method = None
    /\ idx = 1
    /\ results = EmptyDict
    /\ last = NoCall
    /\ handles = 0
    /\ NoWorkers
    /\ NoChain
    /\ NoMyntra
    /\ NoPure

(***************************************************************************)
(* back.py: process_files                                                  *)
(***************************************************************************)
\* process_files(file_list, method) is entered: results = {}
Call(fl, m) ==
    /\ pc = "idle"
    /\ pc' = "running"
    /\ file_list' = fl
    /\ method' = m
    /\ idx' = 1
    /\ results' = EmptyDict
    /\ UNCHANGED <<disk, env, disk0, last, handles>>
    /\ UNCHANGED <<concvars, chainvars, myntravars, purevars>>

\* the loop body recording only the files that were extracted
Iterate_SkipFailed ==
    /\ pc = "running"
    /\ idx <= Len(file_list)
    /\ LET file_name == file_list[idx]
           o == extract_details(file_name, method, disk, env)
       IN  /\ disk' = o.disk
           /\ last' = [called |-> TRUE, file |-> file_name, method |-> method,
                       pre |-> disk, status |-> o.status, raised |-> o.raised,
                       extractor |-> o.extractor, exporter |-> o.exporter]
           /\ results' = IF o.status.status = "failed" THEN results
                         ELSE [f \in (DOMAIN results) \cup {file_name} |->
                                  IF f = file_name THEN o.status ELSE results[f]]
           /\ idx' = idx + 1
           /\ pc' = pc
    /\ handles' = handles + Unclosed(file_list[idx], method, disk, env)
    /\ UNCHANGED <<env, disk0, file_list, method>>
    /\ UNCHANGED <<concvars, chainvars, myntravars, purevars>>

\* one iteration: results[file_name] = extract_details(file_name, method)
Iterate ==
    /\ pc = "running"
    /\ idx <= Len(file_list)
    /\ LET file_name == file_list[idx]
           o == extract_details(file_name, method, disk, env)
       IN  /\ disk' = o.disk
           /\ last' = [called |-> TRUE, file |-> file_name, method |-> method,
                       pre |-> disk, status |-> o.status, raised |-> o.raised,
                       extractor |-> o.extractor, exporter |-> o.exporter]
           /\ IF o.raised # None
              THEN /\ pc' = "raised"
                   /\ UNCHANGED <<idx, results>>
              ELSE /\ results' = [f \in (DOMAIN results) \cup {file_name} |->
                                     IF f = file_name THEN o.status ELSE results[f]]
                   /\ idx' = idx + 1
                   /\ pc' = pc
    /\ handles' = handles + Unclosed(file_list[idx], method, disk, env)
    /\ UNCHANGED <<env, disk0, file_list, method>>
    /\ UNCHANGED <<concvars, chainvars, myntravars, purevars>>

\* return results
Return ==
    /\ pc = "running"
    /\ idx > Len(file_list)
    /\ pc' = "done"
    /\ UNCHANGED <<disk, env, disk0, file_list, method, idx, results, last, handles>>
    /\ UNCHANGED <<concvars, chainvars, myntravars, purevars>>

\* the garbage collector finalises the objects no call closed; when it runs
\* is not decided by the program
Collect ==
    /\ handles > 0
    /\ handles' = 0
    /\ UNCHANGED <<disk, env, disk0, pc, file_list, method, idx, results, last>>
    /\ UNCHANGED <<concvars, chainvars, myntravars, purevars>>

\* process_files is entered only from the idle state (the guard of Call)
Next ==
    \/ pc = "idle" /\ \E fl \in Batches, m \in Methods : Call(fl, m)
    \/ Iterate
    \/ Return
    \/ Collect

Spec == Init /\ [][Next]_vars

(***************************************************************************)
(* Concurrent exports.  The web server handles requests in threads; each   *)
(* request runs process_files([filename], method), and nothing in back.py  *)
(* or create_excel.py takes a lock.  A worker is one such request at its   *)
(* export: convert_df_to_xlsx opens the writer on output_path (the file is *)
(* created or truncated), writes the sheets, and closes it.                *)
(***************************************************************************)
Workers == {1, 2}

NameR == [dir |-> "", stem |-> <<"a", "reliance">>, ext |-> "pdf"]

\* the (file name, method) pairs that reach the exporter: extract_details
\* exports only for registered methods
ExportJobs == [file : FileNames \cup {NameR}, method : ALL_METHODS]

\* the result a worker exports
WorkerData == TwoTable(DF(1, 5), DF(1, 5), TRUE)

\* the batch variables while only exports run
NoBatch ==
    /\ env = [models |-> TRUE, api |-> TRUE, wf |-> "none"]
    /\ disk0 = disk
    /\ pc = "idle"
    /\ file_list = <<>>
    /\ method = None
    /\ idx = 1
    /\ results = EmptyDict
    /\ last = NoCall
    /\ handles = 0

InitConcurrent ==
    /\ disk = Outputs("dir")
    /\ NoBatch
    /\ jobs \in [Workers -> ExportJobs]
    /\ wpc = [w \in Workers |-> "start"]
    /\ NoChain
    /\ NoMyntra
    /\ NoPure

\* os.makedirs, then pd.ExcelWriter(output_path) opens the file for writing
Begin(w) ==
    /\ wpc[w] = "start"
    /\ wpc' = [wpc EXCEPT ![w] = "writing"]
    /\ disk' = WriteFile(Makedirs(disk),
                         OutputPath(jobs[w].file, jobs[w].method), Workbook(<<>>))
    /\ UNCHANGED <<env, disk0, pc, file_list, method, idx, results, last, handles>>
    /\ UNCHANGED <<jobs, chainvars, myntravars, purevars>>

\* the with-block ends: the sheets are saved and the file is closed
Finish(w) ==
    /\ wpc[w] = "writing"
    /\ wpc' = [wpc EXCEPT ![w] = "done"]
    /\ disk' = WriteFile(disk, OutputPath(jobs[w].file, jobs[w].method),
                         Workbook(Sheets(WorkerData)))
    /\ UNCHANGED <<env, disk0, pc, file_list, method, idx, results, last, handles>>
    /\ UNCHANGED <<jobs, chainvars, myntravars, purevars>>

NextConcurrent ==
    \/ \E w \in Workers : Begin(w)
    \/ \E w \in Workers : Finish(w)

SpecConcurrent == InitConcurrent /\ [][NextConcurrent]_vars

(***************************************************************************)
(* The table fallback chain on its own: the two backends' outcomes are     *)
(* chosen, then either function is called once.                            *)
(***************************************************************************)
InitChain ==
    /\ primary \in BackendResults(CamelotTables)
    /\ secondary \in BackendResults(TabulaTables)
    /\ chain = NoCall
    /\ disk = Outputs("dir")
    /\ NoBatch
    /\ NoWorkers
    /\ NoMyntra
    /\ NoPure

CallUniversal1Chain ==
    /\ ~chain.called
    /\ chain' = [called |-> TRUE, fn |-> "universal1",
                 out |-> extract_tables_with_fallback(primary, secondary)]
    /\ UNCHANGED <<batchvars, concvars, primary, secondary, myntravars, purevars>>

CallUniversal2Chain ==
    /\ ~chain.called
    /\ chain' = [called |-> TRUE, fn |-> "universal2",
                 out |-> extract_table_with_fallback(primary, secondary)]
    /\ UNCHANGED <<batchvars, concvars, primary, secondary, myntravars, purevars>>

NextChain == CallUniversal1Chain \/ CallUniversal2Chain

SpecChain == InitChain /\ [][NextChain]_vars

(***************************************************************************)
(* Myntra text extraction on its own: the text layer and the OCR outcome   *)
(* are chosen, then get_details is called once on the existing file.       *)
(***************************************************************************)
InitMyntra ==
    /\ layer \in Layers
    /\ ocr \in OcrOutcomes
    /\ mtext = NoCall
    /\ disk = Outputs("dir")
    /\ NoBatch
    /\ NoWorkers
    /\ NoChain
    /\ NoPure

MyntraGetDetails ==
    /\ ~mtext.called
    /\ LET t == extract_text(layer, ocr)
       IN  mtext' = [called |-> TRUE, text |-> t.text, tried |-> t.tried,
                     raised |-> t.raised, result |-> myntra_from_text(t)]
    /\ UNCHANGED <<batchvars, concvars, chainvars, layer, ocr, purevars>>

NextMyntra == MyntraGetDetails

SpecMyntra == InitMyntra /\ [][NextMyntra]_vars

(***************************************************************************)
(* Header fields with an ordered list of candidate patterns.  The text is  *)
(* abstracted to what each pattern of the list yields on it:               *)
(*   nomatch   the pattern does not match                                  *)
(*   blank     it matches and the capture is empty or whitespace           *)
(*   short     it matches and the capture has one or two characters        *)
(*   sentinel  it matches and the capture is the text "N/A"                *)
(*   value     it matches and the capture is any other text                *)
(***************************************************************************)
CaptureKinds == {"nomatch", "blank", "short", "sentinel", "value"}

\* zomato parse_page_1_header / parse_page_2_header, myntra
\* extract_order_number and extract_dates, universal2 extract_universal_header
HeaderFns == {"zomato", "myntra_order", "myntra_dates", "universal2"}

\* what the patterns of a function can capture: myntra's order patterns
\* capture \S+, its date patterns capture a whole date
Capturable(f) ==
    CASE f = "myntra_order" -> CaptureKinds \ {"blank"}
      [] f = "myntra_dates" -> {"nomatch", "value"}
      [] OTHER              -> CaptureKinds

PatternInputs ==
    UNION {{[fn |-> f, outs |-> o] : o \in [1..n -> Capturable(f)]} :
              f \in HeaderFns, n \in 1..MaxPatterns}

\* the field after the loop: whether the key is set, the index of the
\* pattern whose capture it holds (0: none), the value, and how many patterns
\* were tried
Field(p, i, v, n) == [present |-> p, from |-> i, value |-> v, consulted |-> n]

\* zomato: the loop over pats without its break: the last usable capture wins
RECURSIVE zomato_field_NoBreak(_, _, _)
zomato_field_NoBreak(outs, i, found) ==
    IF i > Len(outs)
    THEN (IF found = 0 THEN Field(TRUE, 0, "N/A", Len(outs))
          ELSE Field(TRUE, found, outs[found], Len(outs)))
    ELSE zomato_field_NoBreak(outs, i + 1,
                              IF outs[i] \in {"short", "value"} THEN i ELSE found)

\* zomato: for pat in pats: result = _extract_regex(...); if result != "N/A":
\* info[field] = result; break.  _extract_regex gives "N/A" for no match and
\* for a capture that is blank after strip
RECURSIVE zomato_field(_, _, _)
zomato_field(outs, i, found) ==
    IF i > Len(outs) THEN Field(TRUE, 0, "N/A", Len(outs))
    ELSE IF outs[i] \in {"short", "value"} THEN Field(TRUE, i, outs[i], i)
    ELSE zomato_field(outs, i + 1, found)

\* myntra extract_order_number: the first match is returned, else "Not found"
RECURSIVE extract_order_number(_, _)
extract_order_number(outs, i) ==
    IF i > Len(outs) THEN Field(TRUE, 0, "Not found", Len(outs))
    ELSE IF outs[i] # "nomatch" THEN Field(TRUE, i, outs[i], i)
    ELSE extract_order_number(outs, i + 1)

\* myntra extract_dates: the first match sets date_info['invoice_date'];
\* without a match the key is not set
RECURSIVE extract_dates(_, _)
extract_dates(outs, i) ==
    IF i > Len(outs) THEN Field(FALSE, 0, None, Len(outs))
    ELSE IF outs[i] # "nomatch" THEN Field(TRUE, i, outs[i], i)
    ELSE extract_dates(outs, i + 1)

\* universal2 extract_universal_header: the first pattern with a capture of
\* more than two characters after strip, else ""
RECURSIVE extract_universal_field(_, _)
extract_universal_field(outs, i) ==
    IF i > Len(outs) THEN Field(TRUE, 0, "", Len(outs))
    ELSE IF outs[i] \in {"sentinel", "value"} THEN Field(TRUE, i, outs[i], i)
    ELSE extract_universal_field(outs, i + 1)

InitPatterns ==
    /\ arg \in PatternInputs
    /\ ret = NoCall
    /\ disk = Outputs("dir")
    /\ NoBatch
    /\ NoWorkers
    /\ NoChain
    /\ NoMyntra

ExtractHeaderField ==
    /\ ~ret.called
    /\ ret' = [called |-> TRUE,
               out |-> CASE arg.fn = "zomato"       -> zomato_field(arg.outs, 1, 0)
                         [] arg.fn = "myntra_order" -> extract_order_number(arg.outs, 1)
                         [] arg.fn = "myntra_dates" -> extract_dates(arg.outs, 1)
                         [] arg.fn = "universal2"   -> extract_universal_field(arg.outs, 1)]
    /\ UNCHANGED <<batchvars, concvars, chainvars, myntravars, arg>>

NextPatterns == ExtractHeaderField

SpecPatterns == InitPatterns /\ [][NextPatterns]_vars

(***************************************************************************)
(* Myntra item rows: the tax breakdown of extract_detailed_items.  Amounts *)
(* are Python floats; halving a float is exact, so an amount is counted in *)
(* half paise: the tax amount T paise is the number 2 * T.                 *)
(***************************************************************************)
\* the alternatives of the capture group (IGST|CGST|SGST)
TaxTypes == {"IGST", "CGST", "SGST"}

\* float(m[9].replace(',', '')) for a printed amount of t paise
TaxAmount(t) == 2 * t

TaxInputs == [tax_amt : {TaxAmount(t) : t \in 0..MaxTax}, tax_type : TaxTypes]

\* the breakdown with each half rounded down to whole paise
tax_breakdown_Rounded(tax_amt, tax_type) ==
    IF tax_type = "IGST"
    THEN [igst_amount |-> tax_amt, cgst_amount |-> 0, sgst_amount |-> 0]
    ELSE [igst_amount |-> 0,
          cgst_amount |-> 2 * ((tax_amt \div 2) \div 2),
          sgst_amount |-> 2 * ((tax_amt \div 2) \div 2)]

\* if tax_type == 'IGST': igst, cgst, sgst = tax_amt, 0.0, 0.0
\* else: cgst = tax_amt / 2; sgst = tax_amt / 2; igst = 0.0
tax_breakdown(tax_amt, tax_type) ==
    IF tax_type = "IGST"
    THEN [igst_amount |-> tax_amt, cgst_amount |-> 0, sgst_amount |-> 0]
    ELSE [igst_amount |-> 0,
          cgst_amount |-> tax_amt \div 2,
          sgst_amount |-> tax_amt \div 2]

InitTax ==
    /\ arg \in TaxInputs
    /\ ret = NoCall
    /\ disk = Outputs("dir")
    /\ NoBatch
    /\ NoWorkers
    /\ NoChain
    /\ NoMyntra

SplitTax ==
    /\ ~ret.called
    /\ ret' = [called |-> TRUE, out |-> tax_breakdown(arg.tax_amt, arg.tax_type)]
    /\ UNCHANGED <<batchvars, concvars, chainvars, myntravars, arg>>

NextTax == SplitTax

SpecTax == InitTax /\ [][NextTax]_vars

(***************************************************************************)
(* Item tables built from a detected grid of cells: amazon extract_tables  *)
(* (pdfplumber) and reliance_digital extract_items_table (camelot).        *)
(***************************************************************************)
\* most rows of a detected grid
MaxRows == 3

\* columns of a detected grid
TableWidth == 2

\* pdfplumber cells: None for a missing cell, '' for an empty one, or text
PlumberCells == {None, "", "x", "y"}

\* camelot cells are always strings
CamelotCells == {"", "x", "y"}

Grids(cells, least) ==
    UNION {[1..n -> [1..TableWidth -> cells]] : n \in least..MaxRows}

\* found is FALSE when camelot.read_pdf returns an empty TableList
TableInputs ==
    [fn : {"amazon"}, found : {TRUE}, table : Grids(PlumberCells, 0)]
        \cup [fn : {"reliance_digital"}, found : BOOLEAN,
              table : Grids(CamelotCells, 1)]

\* no item table: amazon appends nothing, reliance returns pd.DataFrame()
NoTable == [present |-> FALSE, header |-> <<>>, rows |-> <<>>]

\* _clean_text: '' for a falsy value, else the text with collapsed whitespace
clean_text(text) == IF text \in {None, ""} THEN "" ELSE text

\* a row pandas dropna(how="all") drops: every cell is None
AllNull(row) == \A i \in 1..TableWidth : row[i] = None

NotAllNull(row) == ~AllNull(row)

\* amazon extract_tables, the body of the loop for one table
amazon_extract_table(table) ==
    IF Len(table) < 2
    THEN NoTable
    ELSE LET rows == SelectSeq(Tail(table), NotAllNull)
         IN  IF rows = <<>>
             THEN NoTable
             ELSE [present |-> TRUE,
                   header |-> [i \in 1..TableWidth |-> clean_text(table[1][i])],
                   rows |-> rows]

\* reliance_digital extract_items_table, cell by cell
reliance_items_table(found, table) ==
    IF ~found
    THEN NoTable
    ELSE [present |-> TRUE, header |-> table[1], rows |-> Tail(table)]

InitTable ==
    /\ arg \in TableInputs
    /\ ret = NoCall
    /\ disk = Outputs("dir")
    /\ NoBatch
    /\ NoWorkers
    /\ NoChain
    /\ NoMyntra

BuildItemTable ==
    /\ ~ret.called
    /\ ret' = [called |-> TRUE,
               out |-> IF arg.fn = "amazon"
                       THEN amazon_extract_table(arg.table)
                       ELSE reliance_items_table(arg.found, arg.table)]
    /\ UNCHANGED <<batchvars, concvars, chainvars, myntravars, arg>>

NextTable == BuildItemTable

SpecTable == InitTable /\ [][NextTable]_vars

(***************************************************************************)
(* Header dictionaries of swiggy and myntra, field by field: the input is  *)
(* the set of header fields whose pattern matches the invoice text.        *)
(***************************************************************************)
\* the keys extract_swiggy_header can set
SwiggyFields ==
    {"Buyer Name", "Buyer Address", "Restaurant Name", "Restaurant GSTIN",
     "Order ID", "Invoice Number", "Invoice Date", "Invoice Total",
     "Invoice Total (Words)"}

\* myntra fields returned by a function with a "Not found" default
MyntraDefaulted == {"order_number", "invoice_numbers", "packet_id"}

\* myntra fields set by extract_dates and extract_transaction_details
MyntraOptional ==
    {"invoice_date", "order_date", "nature_of_transaction", "place_of_supply",
     "nature_of_supply"}

\* myntra fields read with customer_details.get(k, "")
MyntraCustomer == {"customer_name", "customer_type"}

MyntraFields == MyntraDefaulted \cup MyntraOptional \cup MyntraCustomer

HeaderFields(vendor) == IF vendor = "swiggy" THEN SwiggyFields ELSE MyntraFields

HeaderInputs ==
    [vendor : {"swiggy"}, matched : SUBSET SwiggyFields]
        \cup [vendor : {"myntra"}, matched : SUBSET MyntraFields]

\* extract_swiggy_header: a key is set only under "if <match>:"
swiggy_header_details(matched) == [f \in matched |-> "value"]

\* the invoice_row dictionary of myntra get_details
myntra_invoice_row(matched) ==
    [f \in MyntraDefaulted \cup MyntraCustomer \cup (MyntraOptional \cap matched) |->
        IF f \in matched THEN "value"
        ELSE IF f \in MyntraDefaulted THEN "Not found"
        ELSE ""]

InitHeader ==
    /\ arg \in HeaderInputs
    /\ ret = NoCall
    /\ disk = Outputs("dir")
    /\ NoBatch
    /\ NoWorkers
    /\ NoChain
    /\ NoMyntra

\* invoice_summary = pd.DataFrame([header]): one column per key
ExtractHeader ==
    /\ ~ret.called
    /\ ret' = [called |-> TRUE,
               out |-> IF arg.vendor = "swiggy"
                       THEN swiggy_header_details(arg.matched)
                       ELSE myntra_invoice_row(arg.matched)]
    /\ UNCHANGED <<batchvars, concvars, chainvars, myntravars, arg>>

NextHeader == ExtractHeader

SpecHeader == InitHeader /\ [][NextHeader]_vars

(***************************************************************************)
(* The fixed-offset item extractors: flipkart extract_items_flipkart and   *)
(* instamart extract_items_table_fixed.  The first-page text is given by   *)
(* its number of lines and by how many numbers the pattern                 *)
(* \d+\.\d+|\d+ finds on line 12 and on line 15.                           *)
(***************************************************************************)
\* most lines of the first page's text
MaxLines == 18

\* most numbers on one line
MaxNumbers == 7

\* text.split('\n') of a string has at least one element
LineInputs ==
    [fn : {"flipkart", "instamart"}, lines : 1..MaxLines,
     numbers12 : 0..MaxNumbers, numbers15 : 0..MaxNumbers]

\* lst[i] of a list of n elements, i >= 0: fine or IndexError
InRange(n, i) == i < n

\* lst[-j] of a list of n elements: fine or IndexError
InRangeFromEnd(n, j) == j <= n

\* the product row with blank amounts when line 12 has too few numbers
ProductRow_NoNumberCheck(n, numbers) ==
    IF n > 13
    THEN IF ~(InRange(n, 11) /\ InRange(n, 12) /\ InRange(n, 13))
         THEN "IndexError"
         ELSE "row"
    ELSE "none"

\* if len(lines) > 13: ... if len(numbers) >= 6: items_data.append(...)
ProductRow(n, numbers) ==
    IF n > 13
    THEN IF ~(InRange(n, 11) /\ InRange(n, 12) /\ InRange(n, 13))
         THEN "IndexError"
         ELSE IF numbers >= 6
              THEN IF InRangeFromEnd(numbers, 6) THEN "row" ELSE "IndexError"
              ELSE "none"
    ELSE "none"

\* if len(lines) > 16: ... if len(shipping_numbers) >= 6: items_data.append(...)
ShippingRow(n, numbers) ==
    IF n > 16
    THEN IF ~(InRange(n, 14) /\ InRange(n, 15) /\ InRange(n, 16))
         THEN "IndexError"
         ELSE IF numbers >= 6
              THEN IF InRange(numbers, 5) THEN "row" ELSE "IndexError"
              ELSE "none"
    ELSE "none"

Rows(product, shipping) ==
    (IF product = "row" THEN <<"product">> ELSE <<>>)
        \o (IF shipping = "row" THEN <<"shipping">> ELSE <<>>)

\* flipkart: each part has its own try/except, and the whole body another
flipkart_items(n, n12, n15) ==
    [raised |-> FALSE, rows |-> Rows(ProductRow(n, n12), ShippingRow(n, n15))]

\* instamart: one try/except around both parts
extract_items_table_fixed(n, n12, n15) ==
    IF ProductRow(n, n12) = "IndexError"
    THEN [raised |-> FALSE, rows |-> <<>>]
    ELSE [raised |-> FALSE, rows |-> Rows(ProductRow(n, n12), ShippingRow(n, n15))]

InitLines ==
    /\ arg \in LineInputs
    /\ ret = NoCall
    /\ disk = Outputs("dir")
    /\ NoBatch
    /\ NoWorkers
    /\ NoChain
    /\ NoMyntra

ExtractFixedItems ==
    /\ ~ret.called
    /\ ret' = [called |-> TRUE,
               out |-> IF arg.fn = "flipkart"
                       THEN flipkart_items(arg.lines, arg.numbers12, arg.numbers15)
                       ELSE extract_items_table_fixed(arg.lines, arg.numbers12,
                                                      arg.numbers15)]
    /\ UNCHANGED <<batchvars, concvars, chainvars, myntravars, arg>>

NextLines == ExtractFixedItems

SpecLines == InitLines /\ [][NextLines]_vars

(***************************************************************************)
(* Two exports one after the other, as the loop of process_files makes     *)
(* them: each job is a (file name, method) pair that reaches the exporter. *)
(***************************************************************************)
\* a.PDF: the same base name as a.pdf under another extension
NameP == [dir |-> "", stem |-> <<"a">>, ext |-> "PDF"]

ExportNames == {NameA, NameB, NameP, NameR}

ExportPairs == [1..2 -> [file : ExportNames, method : ALL_METHODS]]

\* the result exported for the i-th job: i rows in either table
JobData(i) == TwoTable(DF(i, 5), DF(i, 5), TRUE)

\* the number of exports made so far
Exported == IF ret.called THEN Len(ret.out) ELSE 0

InitExports ==
    /\ arg \in ExportPairs
    /\ ret = NoCall
    /\ disk = Outputs("dir")
    /\ NoBatch
    /\ NoWorkers
    /\ NoChain
    /\ NoMyntra

\* convert_df_to_xlsx(data, file_name, method) for the next job
ExportNext ==
    /\ Exported < Len(arg)
    /\ LET i == Exported + 1
           job == arg[i]
       IN  /\ disk' = convert_df_to_xlsx(JobData(i), job.file, job.method,
                                         disk, env).disk
           /\ ret' = [called |-> TRUE,
                      out |-> (IF ret.called THEN ret.out ELSE <<>>)
                                  \o <<OutputPath(job.file, job.method)>>]
    /\ UNCHANGED <<env, disk0, pc, file_list, method, idx, results, last, handles>>
    /\ UNCHANGED <<concvars, chainvars, myntravars, arg>>

NextExports == ExportNext

SpecExports == InitExports /\ [][NextExports]_vars

(***************************************************************************)
(* onemg item rows: extract_items_1mg over the tables of one invoice and   *)
(* process_table_rows over the rows of one table.  A table is the sequence *)
(* of its rows below the header row; a row is                              *)
(*   "serial"        first cell all digits, Product Name filled            *)
(*   "serial_blank"  first cell all digits, Product Name empty             *)
(*   "cont"          first cell not all digits: the wrapped rest of a      *)
(*                   product name                                          *)
(* 'Custom Sr No' f"1mg.{n}" is the number n.                              *)
(***************************************************************************)
\* most rows of a table below its header row
MaxItemRows == 4

\* tables of one invoice
InvoiceTables == 2

RowKinds == {"serial", "serial_blank", "cont"}

ItemTables == UNION {[1..n -> RowKinds] : n \in 0..MaxItemRows}

ItemInputs == UNION {[1..n -> ItemTables] : n \in 1..InvoiceTables}

\* is_serial(first_cell)
is_serial(row) == row \in {"serial", "serial_blank"}

\* a table extract_items_1mg processes: len(table) >= 5, header included
\* (tables are taken to have the 8 columns asked for)
LongEnough(table) == Len(table) + 1 >= 5

\* the loop of process_table_rows from row i on; current is the row being
\* built, as a sequence of no or one row
RECURSIVE process_rows_from(_, _, _, _, _)
process_rows_from(table, i, cleaned_rows, current_row, row_serial) ==
    IF i > Len(table)
    THEN cleaned_rows \o current_row
    ELSE IF is_serial(table[i])
    THEN process_rows_from(table, i + 1, cleaned_rows \o current_row,
             <<[sr |-> row_serial, name |-> table[i] = "serial", lines |-> 1]>>,
             row_serial + 1)
    ELSE IF current_row # <<>>
    THEN process_rows_from(table, i + 1, cleaned_rows,
             <<[sr |-> current_row[1].sr, name |-> TRUE,
                lines |-> current_row[1].lines + 1]>>,
             row_serial)
    ELSE process_rows_from(table, i + 1, cleaned_rows, current_row, row_serial)

\* process_table_rows(df, filename, is_serial): row_serial starts at 1
process_table_rows(table) == process_rows_from(table, 1, <<>>, <<>>, 1)

\* cleaned_rows.extend(process_table_rows(...)) over the tables of the pages
RECURSIVE cleaned_rows_of(_, _)
cleaned_rows_of(tables, t) ==
    IF t > Len(tables) THEN <<>>
    ELSE (IF LongEnough(tables[t]) THEN process_table_rows(tables[t]) ELSE <<>>)
             \o cleaned_rows_of(tables, t + 1)

HasProductName(row) == row.name

\* extract_items_1mg: the rows of all tables, then those with a Product Name
extract_items_1mg_rows(tables) == SelectSeq(cleaned_rows_of(tables, 1), HasProductName)

InitItems ==
    /\ arg \in ItemInputs
    /\ ret = NoCall
    /\ disk = Outputs("dir")
    /\ NoBatch
    /\ NoWorkers
    /\ NoChain
    /\ NoMyntra

ExtractItems1mg ==
    /\ ~ret.called
    /\ ret' = [called |-> TRUE,
               out |-> [per_table |-> [t \in 1..Len(arg) |-> process_table_rows(arg[t])],
                        final |-> extract_items_1mg_rows(arg)]]
    /\ UNCHANGED <<batchvars, concvars, chainvars, myntravars, arg>>

NextItems == ExtractItems1mg

SpecItems == InitItems /\ [][NextItems]_vars

(***************************************************************************)
(* zomato _clean_dataframe_columns: renaming repeated column names.  A     *)
(* column name is [base, sfx]: "A" is base "A" with sfx <<>>, "A_1" is     *)
(* base "A" with sfx <<1>>, so that f"{col}_{k}" appends k to sfx.         *)
(***************************************************************************)
\* most columns of a table
MaxCols == 4

ColumnName(b, s) == [base |-> b, sfx |-> s]

\* the names A, B, A_1, A_2
ColumnNames ==
    {ColumnName("A", <<>>), ColumnName("B", <<>>),
     ColumnName("A", <<1>>), ColumnName("A", <<2>>)}

ColumnInputs == UNION {[1..n -> ColumnNames] : n \in 0..MaxCols}

\* f"{col}_{k}"
Suffixed(col, k) == ColumnName(col.base, col.sfx \o <<k>>)

\* the loop over cols from position i on; seen maps a name to the number of
\* its repeats so far
RECURSIVE clean_columns_from(_, _, _, _)
clean_columns_from(cols, i, seen, new_cols) ==
    IF i > Len(cols) THEN new_cols
    ELSE LET col == cols[i] IN
         IF col \in DOMAIN seen
         THEN clean_columns_from(cols, i + 1,
                  [seen EXCEPT ![col] = seen[col] + 1],
                  new_cols \o <<Suffixed(col, seen[col] + 1)>>)
         ELSE clean_columns_from(cols, i + 1,
                  [c \in (DOMAIN seen) \cup {col} |-> IF c = col THEN 0 ELSE seen[c]],
                  new_cols \o <<col>>)

\* _clean_dataframe_columns(df), on the column names of a table with rows
clean_dataframe_columns(cols) == clean_columns_from(cols, 1, <<>>, <<>>)

InitColumns ==
    /\ arg \in ColumnInputs
    /\ ret = NoCall
    /\ disk = Outputs("dir")
    /\ NoBatch
    /\ NoWorkers
    /\ NoChain
    /\ NoMyntra

CleanColumns ==
    /\ ~ret.called
    /\ ret' = [called |-> TRUE, out |-> clean_dataframe_columns(arg)]
    /\ UNCHANGED <<batchvars, concvars, chainvars, myntravars, arg>>

NextColumns == CleanColumns

SpecColumns == InitColumns /\ [][NextColumns]_vars

(***************************************************************************)
(* Properties                                                              *)
(***************************************************************************)
\* what the extractor of the latest call returned or raised
LastOut == Extractor(last.method, last.file, last.pre, env).out

LastRegistered == last.called /\ last.method \in ALL_METHODS

LastMissing == last.called /\ ~Exists(last.pre, UploadPath(last.file))

\* C1: when the extractor raises, extract_details returns status failed with
\* the exception's message as error; process_files does not raise and still
\* records every file of the batch
C1_ExtractorExceptionIsFailedStatus ==
    /\ pc # "raised"
    /\ (LastRegistered /\ LastOut.shape = "raise")
          => /\ last.raised = None
             /\ last.status.status = "failed"
             /\ last.status.error = LastOut.msg
    /\ pc = "done" => \A i \in 1..Len(file_list) : file_list[i] \in DOMAIN results

\* a batch whose first file made the extractor raise and whose second file
\* was extracted
C1_Witness ==
    /\ pc = "done"
    /\ Len(file_list) = 2
    /\ method \in ALL_METHODS
    /\ Extractor(method, file_list[1], disk0, env).out.shape = "raise"
    /\ results[file_list[1]].status = "failed"
    /\ results[file_list[2]].status = "success"

\* C2 as stated: one entry per element of file_list, and as many entries as
\* files passed in
C2_EntryCountIsListLength ==
    pc = "done" => /\ DOMAIN results = Range(file_list)
                   /\ Cardinality(DOMAIN results) = Len(file_list)

\* C2 amended: the keys of the returned mapping are exactly the file names of
\* file_list, each with the status of its latest call; a name passed twice
\* has one entry
C2_KeysAreTheFileNames ==
    /\ pc = "running" => DOMAIN results = {file_list[i] : i \in 1..(idx - 1)}
    /\ pc = "done" => DOMAIN results = Range(file_list)
    /\ (pc \in {"running", "done"} /\ last.called)
          => results[last.file] = last.status

\* a returned mapping of a batch that names one file twice
C2_Witness ==
    /\ pc = "done"
    /\ Len(file_list) = 2
    /\ file_list[1] = file_list[2]
    /\ Cardinality(DOMAIN results) = 1

\* C3: with a registered method, status is success iff the extractor returned
\* a result with a non-empty table
C3_SuccessIffHasData ==
    LastRegistered =>
        (last.status.status = "success" <=> HasData(LastOut))

\* C4: status is success or failed and carries the method; success holds the
\* result and no error; failed holds no data and a non-empty error string
C4_StatusShape ==
    last.called =>
        /\ last.status.status \in {"success", "failed"}
        /\ last.status.model_used = last.method
        /\ last.status.status = "success"
              => /\ last.status.data = LastOut
                 /\ "error" \notin DOMAIN last.status
        /\ last.status.status = "failed"
              => /\ last.status.data = NoData
                 /\ "error" \in DOMAIN last.status
                 /\ last.status.error # ""

\* C5: an unregistered method gives failed / "Extractor not found"; no
\* extractor, no exporter, and the file system is as before the call
C5_UnknownMethodTouchesNothing ==
    (last.called /\ last.method \notin ALL_METHODS) =>
        /\ last.status = Failed(last.method, "Extractor not found")
        /\ ~last.extractor
        /\ ~last.exporter
        /\ disk = last.pre

\* an unregistered method called on an extractable file
C5_Witness ==
    /\ last.called
    /\ last.method = "nonexistent_vendor"
    /\ Exists(last.pre, UploadPath(last.file))
    /\ KindAt(last.pre, UploadPath(last.file)) = "items"
    /\ last.status.status = "failed"

\* C6: whenever the extractor returned data, the status is success with the
\* data attached, however the export fails
C6_ExportFailureKeepsSuccess ==
    (LastRegistered /\ HasData(LastOut)) =>
        /\ last.status.status = "success"
        /\ last.status.data = LastOut

\* C7: the status recorded for a file in a batch is the status
\* extract_details gives that file on its own
C7_BatchEntriesIsolated ==
    pc = "done" =>
        \A f \in DOMAIN results :
            results[f].status = extract_details(f, method, disk0, env).status.status

\* C8 as stated: every registered extractor, on a missing file, returns the
\* empty two-table result
C8_MissingFileGivesEmptyTwoTable ==
    (LastRegistered /\ LastMissing) => LastOut = create_empty_result

\* C8 amended: on a missing file every registered extractor other than gemini
\* returns the empty two-table result with has_items false; gemini returns an
\* empty single table; none raises and none changes the file system
C8_MissingFileGivesEmptyResult ==
    \A fn \in FileNames :
        ~Exists(disk, UploadPath(fn)) =>
            \A m \in ALL_METHODS :
                LET r == Extractor(m, fn, disk, env) IN
                /\ r.disk = disk
                /\ r.out = IF m = "gemini" THEN SingleTable(EmptyDF)
                           ELSE create_empty_result

\* a call on a missing file with a registered method has returned
C8_Witness ==
    /\ LastRegistered
    /\ LastMissing
    /\ last.method # "gemini"
    /\ LastOut = create_empty_result

\* the error strings of the model that end with "not found"
EndsWithNotFound(e) == e \in {"Extractor not found"}

\* C9 as stated: a missing input file gives failed with an error ending in
\* "not found"
C9_MissingFileErrorNotFound ==
    (LastRegistered /\ LastMissing) =>
        /\ last.status.status = "failed"
        /\ EndsWithNotFound(last.status.error)

\* C9 amended: a missing input file gives failed with the error
\* "No data extracted"
C9_MissingFileNoDataExtracted ==
    (LastRegistered /\ LastMissing) =>
        last.status = Failed(last.method, "No data extracted")

\* a missing file was processed while another file of the batch exists
C9_Witness ==
    /\ LastRegistered
    /\ LastMissing
    /\ last.status.status = "failed"
    /\ \E fn \in FileNames : Exists(last.pre, UploadPath(fn))

\* C10: in every two-table result has_items is true iff item_details has a row
C10_HasItemsIffRows ==
    (LastRegistered /\ LastOut.shape = "dict") =>
        (LastOut.has_items <=> LastOut.item_details.rows > 0)

\* the file system the exporter of the latest call started from
LastMid == Extractor(last.method, last.file, last.pre, env).disk

\* the path the exporter of the latest call writes
LastPath == OutputPath(last.file, last.method)

\* C11: exporting the same data for the same file name and method again
\* rewrites extracted_excels/<base_name>_<method>.xlsx and leaves the file
\* system as the first export left it: one workbook, same content
C11_ExportIdempotent ==
    (LastRegistered /\ last.exporter) =>
        /\ convert_df_to_xlsx(LastOut, last.file, last.method, disk, env).disk = disk
        /\ (last.status.status = "success" /\ ~WriterFails(LastOut, env))
              => /\ Exists(disk, LastPath)
                 /\ disk[LastPath] = Workbook(Sheets(LastOut))

\* a batch that names one file twice has exported it twice, and the second
\* export left the file system as the first did
C11_Witness ==
    /\ pc = "done"
    /\ Len(file_list) = 2
    /\ file_list[1] = file_list[2]
    /\ LastRegistered
    /\ last.exporter
    /\ last.status.status = "success"
    /\ Exists(last.pre, LastPath)
    /\ disk = last.pre

\* C12: every two-table result the exporter writes gives a workbook with the
\* sheets "Invoice Summary" and "Item Details"; empty item_details gives the
\* one-row placeholder sheet
C12_BothSheetsWritten ==
    (/\ LastRegistered
     /\ last.exporter
     /\ last.status.status = "success"
     /\ LastOut.shape = "dict"
     /\ ~WriterFails(LastOut, env)) =>
        /\ {"Invoice Summary", "Item Details"} \subseteq DOMAIN disk[LastPath].sheets
        /\ IsEmpty(LastOut.item_details)
              => disk[LastPath].sheets["Item Details"] = DF(1, 1)

\* C13: when the multi-sheet write fails, the invoice summary alone is
\* written as one sheet at the same path; when that write fails too nothing
\* is written and nothing is raised: the status stays success
C13_FallbackThenSilent ==
    (/\ LastRegistered
     /\ last.exporter
     /\ ~MakedirsFails(LastMid)
     /\ WriterFails(LastOut, env)) =>
        /\ last.raised = None
        /\ last.status.status = "success"
        /\ env.wf # "disk"
              => /\ Exists(disk, LastPath)
                 /\ LastOut.shape = "dict"
                       => disk[LastPath].sheets = ("Sheet1" :> LastOut.invoice_summary)
        /\ env.wf = "disk" => disk = Makedirs(LastMid)

\* an export whose item table was rejected has left the one-sheet workbook
C13_Witness ==
    /\ LastRegistered
    /\ last.exporter
    /\ env.wf = "cells"
    /\ LastOut.shape = "dict"
    /\ ~IsEmpty(LastOut.item_details)
    /\ Exists(disk, LastPath)
    /\ DOMAIN disk[LastPath].sheets = {"Sheet1"}

\* C14: the invoice_summary table of every result has at most one data row
C14_SummaryAtMostOneRow ==
    (LastRegistered /\ LastOut.shape = "dict") =>
        LastOut.invoice_summary.rows <= 1

\* C15: the path an extractor opens lies inside uploads, and the path the
\* exporter writes lies directly inside extracted_excels
C15_PathsConfined ==
    (LastRegistered /\ last.extractor) =>
        /\ UploadPath(last.file).dir = "uploads"
        /\ last.exporter => LastPath.dir = "extracted_excels"

\* C16: on an existing input file no extractor raises
C16_ExtractorNeverRaises ==
    (LastRegistered /\ ~LastMissing) => LastOut.shape # "raise"

\* C17: every handle a call opened is closed when the call has returned:
\* between calls no handle is open
C17_NoOpenHandles == handles = 0

\* two workers have the same (base name, method) pair
SamePair(v, w) ==
    /\ jobs[v].file.stem = jobs[w].file.stem
    /\ jobs[v].method = jobs[w].method

\* two workers export to the same destination file
SameDestination(v, w) ==
    OutputPath(jobs[v].file, jobs[v].method) = OutputPath(jobs[w].file, jobs[w].method)

\* C18: exports of the same (base name, method) pair have the same
\* destination and nothing makes one wait for the other: while one is
\* writing the other can open the file too; exports of two different pairs
\* have different destinations, so they never write the same file
C18_SamePairRacesOthersDisjoint ==
    \A v, w \in DOMAIN wpc :
        v # w =>
            /\ SamePair(v, w) => SameDestination(v, w)
            /\ (wpc[v] = "writing" /\ wpc[w] = "start") => ENABLED Begin(w)
            /\ (wpc[v] = "writing" /\ wpc[w] = "writing" /\ ~SamePair(v, w))
                  => ~SameDestination(v, w)

\* both workers are writing the same destination file at once
C18_Witness ==
    \E v, w \in DOMAIN wpc :
        /\ v # w
        /\ wpc[v] = "writing"
        /\ wpc[w] = "writing"
        /\ SamePair(v, w)
        /\ SameDestination(v, w)

\* the primary backend returned at least one table and none of them is empty
\* or holds a null cell
PrimaryClean ==
    /\ ~primary.raised
    /\ Len(primary.tables) > 0
    /\ \A i \in 1..Len(primary.tables) : primary.tables[i] \notin {"empty", "null"}

\* what the chain returns once it has consulted the secondary backend
SecondaryTables ==
    IF secondary.raised THEN <<>> ELSE SelectSeq(secondary.tables, NotEmptyTable)

\* C19 as stated: both chains return the primary tables only when there is
\* one and none was rejected as empty or null-containing; otherwise they call
\* the secondary backend exactly once and return its non-empty tables, or []
\* when it raises; they never raise
C19_PrimaryOnlyWhenNoneRejected ==
    chain.called =>
        /\ ~chain.out.raised
        /\ chain.out.consulted = 0
              => /\ PrimaryClean
                 /\ chain.out.tables = primary.tables
        /\ ~PrimaryClean
              => /\ chain.out.consulted = 1
                 /\ chain.out.tables = SecondaryTables

\* C19 amended: universal1 returns the primary tables exactly when there is
\* one and none is empty or null-containing; universal2 returns the primary
\* tables that are non-empty and have more than one row whenever there is
\* such a table, the others being dropped; in every other case the chain
\* calls the secondary backend exactly once and returns its non-empty
\* tables, or [] when it raises; neither chain raises
C19_ChainPerFunction ==
    chain.called =>
        /\ ~chain.out.raised
        /\ chain.out.consulted \in {0, 1}
        /\ chain.out.consulted = 1 => chain.out.tables = SecondaryTables
        /\ chain.fn = "universal1"
              => /\ chain.out.consulted = 0 <=> PrimaryClean
                 /\ chain.out.consulted = 0 => chain.out.tables = primary.tables
        /\ chain.fn = "universal2"
              => LET kept == SelectSeq(primary.tables, KeptByUniversal2)
                 IN  /\ chain.out.consulted = 0 <=> (~primary.raised /\ Len(kept) > 0)
                     /\ chain.out.consulted = 0 => chain.out.tables = kept

\* universal2 returned primary tables although one of them was empty, and
\* did not consult the secondary backend
C19_Witness ==
    /\ chain.called
    /\ chain.fn = "universal2"
    /\ chain.out.consulted = 0
    /\ \E i \in 1..Len(primary.tables) : primary.tables[i] = "empty"
    /\ Len(chain.out.tables) < Len(primary.tables)

\* the text layer yielded no text other than whitespace
LayerBlank ==
    \/ layer.raised
    \/ \A i \in 1..Len(layer.pages) : layer.pages[i] \in {"None", ""}

Lowest(S) == IF S = {} THEN 0 ELSE CHOOSE i \in S : \A j \in S : i <= j

\* the sentinel of each vendor
Sentinel(f) ==
    CASE f = "zomato" -> "N/A"
      [] f \in {"myntra_order", "myntra_dates"} -> "Not found"
      [] f = "universal2" -> ""

Usable(f) ==
    CASE f = "zomato" -> {"short", "value"}
      [] f = "universal2" -> {"sentinel", "value"}
      [] OTHER -> CaptureKinds \ {"nomatch"}

C22_TaxSplitExact ==
    ret.called =>
        /\ arg.tax_type = "IGST"
              => /\ ret.out.igst_amount = arg.tax_amt
                 /\ ret.out.cgst_amount = 0
                 /\ ret.out.sgst_amount = 0
        /\ arg.tax_type # "IGST"
              => /\ ret.out.cgst_amount = ret.out.sgst_amount
                 /\ 2 * ret.out.cgst_amount = arg.tax_amt
                 /\ ret.out.igst_amount = 0
        /\ ret.out.cgst_amount + ret.out.sgst_amount + ret.out.igst_amount
              = arg.tax_amt

\* an odd number of paise was split between CGST and SGST
C22_Witness ==
    /\ ret.called
    /\ arg.tax_type = "CGST"
    /\ arg.tax_amt = TaxAmount(25)
    /\ ret.out.cgst_amount = 25
    /\ ret.out.sgst_amount = 25

\* a fully-blank row: every cell is null or empty
BlankRow(row) == \A i \in 1..TableWidth : row[i] \in {None, ""}

NotBlankRow(row) == ~BlankRow(row)

\* C23: the first row of a detected table becomes the column headers, the
\* later rows become the data rows in their order with every fully-blank
\* row dropped, and a table of fewer than two rows gives no data rows
C23_HeaderThenNonBlankRows ==
    ret.called =>
        IF ~arg.found \/ Len(arg.table) < 2
        THEN ret.out.rows = <<>>
        ELSE /\ ret.out.rows = SelectSeq(Tail(arg.table), NotBlankRow)
             /\ ret.out.rows # <<>> =>
                    ret.out.header
                        = [i \in 1..TableWidth |-> clean_text(arg.table[1][i])]

\* the values a vendor may use for a field without a match
Sentinels == {"", "N/A", "Not found"}

\* C24: the invoice_summary columns of a vendor are all its header fields,
\* whichever patterns matched, and the fields without a match all hold one
\* and the same sentinel value
C24_SchemaStableOneSentinel ==
    ret.called =>
        /\ DOMAIN ret.out = HeaderFields(arg.vendor)
        /\ \E s \in Sentinels :
              \A f \in HeaderFields(arg.vendor) \ arg.matched :
                 f \in DOMAIN ret.out /\ ret.out[f] = s

\* a row of the given kind is in the result
Emitted(kind) == \E i \in 1..Len(ret.out.rows) : ret.out.rows[i] = kind

\* C25: the fixed-offset item extractors never raise; with 13 or fewer lines
\* they return no rows; the product row is emitted only with more than 13
\* lines and at least 6 numbers on line 12, the shipping row only with more
\* than 16 lines and at least 6 numbers on line 15; there are 0, 1 or 2 rows
C25_FixedOffsetsGuarded ==
    ret.called =>
        /\ ~ret.out.raised
        /\ arg.lines <= 13 => ret.out.rows = <<>>
        /\ Emitted("product") => (arg.lines > 13 /\ arg.numbers12 >= 6)
        /\ Emitted("shipping") => (arg.lines > 16 /\ arg.numbers15 >= 6)
        /\ Len(ret.out.rows) \in {0, 1, 2}

\* a text of 17 lines gave both the product row and the shipping row
C25_Witness ==
    /\ ret.called
    /\ arg.lines = 17
    /\ arg.numbers12 = 6
    /\ arg.numbers15 = 6
    /\ ret.out.rows = <<"product", "shipping">>

\* C26: two exports with different file names or different registered
\* methods write to different paths, so the workbook of the first export is
\* still there, unchanged, after the second
C26_OutputPathInjective ==
    (Exported = 2 /\ arg[1] # arg[2]) =>
        /\ ret.out[1] # ret.out[2]
        /\ Exists(disk, ret.out[1])
        /\ disk[ret.out[1]] = Workbook(Sheets(JobData(1)))

\* the number of rows of a table whose first cell is all digits
SerialStarts(table) == Cardinality({i \in 1..Len(table) : is_serial(table[i])})

\* C27: process_table_rows gives one output row per serial-start row,
\* numbered 1mg.1, 1mg.2, ... in input order, and the 'Custom Sr No' values
\* of all item rows of one invoice are pairwise distinct
C27_SerialRowsNumberedUnique ==
    ret.called =>
        /\ \A t \in 1..Len(arg) :
              /\ Len(ret.out.per_table[t]) = SerialStarts(arg[t])
              /\ \A i \in 1..Len(ret.out.per_table[t]) :
                    ret.out.per_table[t][i].sr = i
        /\ \A i, j \in 1..Len(ret.out.final) :
              i # j => ret.out.final[i].sr # ret.out.final[j].sr

\* the number of metadata keys of the flipkart and onemg extractors
MetadataKeys(m) == IF m = "flipkart" THEN 16 ELSE 11

\* C28: with flipkart or onemg every file that exists in uploads gives an
\* invoice_summary of one row with all the metadata keys, and extract_details
\* reports success
C28_ExistingFileAlwaysSuccess ==
    (last.called /\ last.method \in {"flipkart", "onemg"} /\ ~LastMissing) =>
        /\ LastOut.shape = "dict"
        /\ LastOut.invoice_summary = DF(1, MetadataKeys(last.method))
        /\ last.status.status = "success"

\* the paths inside extracted_excels that the latest call created or changed
Touched ==
    {p \in (DOMAIN disk) \cup (DOMAIN last.pre) :
        /\ p.dir = "extracted_excels"
        /\ \/ Exists(disk, p) # Exists(last.pre, p)
           \/ Exists(disk, p) /\ Exists(last.pre, p) /\ disk[p] # last.pre[p]}

\* C29: a call that returns failed has created or modified nothing in
\* extracted_excels, and a call that returns success has written there only
\* at extracted_excels/<base_name>_<method>.xlsx
C29_OnlySuccessWritesOwnPath ==
    (last.called /\ last.raised = None) =>
        /\ last.status.status = "failed" => Touched = {}
        /\ last.status.status = "success" => Touched \subseteq {LastPath}

\* the number of occurrences of the i-th name before position i
Earlier(cols, i) == Cardinality({j \in 1..(i - 1) : cols[j] = cols[i]})

\* C30: the cleaned column names are pairwise distinct for every list of
\* names; the first occurrence of a name stays and its k-th repeat becomes
\* <name>_<k>
C30_ColumnNamesDistinct ==
    ret.called =>
        /\ Len(ret.out) = Len(arg)
        /\ \A i \in 1..Len(arg) :
              ret.out[i] = IF Earlier(arg, i) = 0 THEN arg[i]
                           ELSE Suffixed(arg[i], Earlier(arg, i))
        /\ \A i, j \in 1..Len(ret.out) : i # j => ret.out[i] # ret.out[j]

====
